---- MODULE Spec2Model ----
(***************************************************************************)
(* Model of src/2026/clickhouse_llm_integration_knn:                       *)
(*   optimize_table.py  the OPTIMIZE TABLE maintenance utility (main,      *)
(*                      optimize_table_sync, check_background_pool_status) *)
(*   ingest_chunks.py   the ingest script (encode, prepare rows, insert)   *)
(*   query_knn.py       the KNN query script                               *)
(* The store (ClickHouse), the embedding model, the wall clock and the     *)
(* console are the environment: every call to them is a step whose result  *)
(* is drawn from the outcomes the environment can produce.                 *)
(***************************************************************************)
EXTENDS Integers, Sequences, FiniteSets, TLC

\* ------------------------------------------------------------------ bounds
MaxTasks == 1            \* BackgroundPoolTask values 0..MaxTasks
MaxPool == 1             \* BackgroundPoolSize values 0..MaxPool

\* ------------------------------------------------------------ optimize_table.py
\* Two invocations of the script (two operators' shells) against one TABLE.
Runs == {1, 2}

TABLE == "chunks"

VARIABLES
    pc,                \* per run: position in main / optimize_table_sync
    response,          \* main: answer to the FINAL prompt, after strip().lower()
    cleanup_response,  \* main: answer to the FINAL CLEANUP prompt, likewise
    status,            \* main's local status (<<>> while unset)
    sync_status,       \* optimize_table_sync's local status
    status_after,      \* optimize_table_sync's local status_after
    optimize_query,    \* optimize_table_sync's local optimize_query
    calls,             \* per run: the store calls made so far, in order
    ret                \* per run: optimize_table_sync's return value

cvars == <<pc, response, cleanup_response, status, sync_status, status_after,
           optimize_query, calls, ret>>

VARIABLES
    ipc,           \* ingest script: position
    texts,         \* ingest script: the batch
    cfg,           \* ingest script: [tenant_id, source] of this run
    emb_failed,    \* chunk positions the embedding model failed on, this run
    embeddings,    \* ingest script: model.encode(texts)
    rows,          \* ingest script: rows prepared so far
    inserted,      \* number of rows ch.insert wrote for this run
    clock,         \* the wall clock datetime.now() reads
    store,         \* the table: rows in insertion order
    query,         \* query script: [question, tenant_id, source, top_k] (<<>> unset)
    hits,          \* store positions of the rows of result.result_rows, in order
    hits_again     \* the same, for a second run of the same script

ivars == <<ipc, texts, cfg, emb_failed, embeddings, rows, inserted, clock, store>>
qvars == <<query, hits, hits_again>>

\* --- console input: input(...).strip().lower()
IsSpace(c) == c \in {" ", "\t", "\n"}

Lower(c) ==
    CASE c = "Y" -> "y"
      [] c = "E" -> "e"
      [] c = "S" -> "s"
      [] c = "N" -> "n"
      [] c = "O" -> "o"
      [] OTHER -> c

RECURSIVE LStrip(_)
LStrip(s) == IF s # <<>> /\ IsSpace(Head(s)) THEN LStrip(Tail(s)) ELSE s

RECURSIVE RStrip(_)
RStrip(s) ==
    IF s # <<>> /\ IsSpace(s[Len(s)]) THEN RStrip(SubSeq(s, 1, Len(s) - 1)) ELSE s

Strip(s) == RStrip(LStrip(s))

LowerStr(s) == [i \in 1..Len(s) |-> Lower(s[i])]

\* What the operator may type at a prompt (before normalisation).
Answers ==
    { <<"y", "e", "s">>, <<" ", "Y", " ">>, <<"n", "o">>, <<>>,
      <<"Y", "E", "S">>, <<"y", "e", "s", "!">> }

\* response in ['yes', 'y']
Confirms(r) == r \in { <<"y", "e", "s">>, <<"y">> }

Unasked == <<"<unasked>">>

\* --- check_background_pool_status
\* round(x, 2) of x = active_tasks / pool_size * 100, in hundredths of a
\* percent, ties to even.
RoundHundredths(num, den) ==
    LET q == (num * 10000) \div den
        rem == (num * 10000) % den
    IN  IF 2 * rem > den THEN q + 1
        ELSE IF 2 * rem < den THEN q
        ELSE IF q % 2 = 0 THEN q ELSE q + 1

PoolStatus(active_tasks, pool_size) ==
    LET free_threads == pool_size - active_tasks
    IN  [ active_tasks |-> active_tasks,
          pool_size |-> pool_size,
          free_threads |-> free_threads,
          utilization_pct |->
              IF pool_size > 0 THEN RoundHundredths(active_tasks, pool_size) ELSE 0,
          is_full |-> free_threads <= 0 ]

\* --- the store calls a run makes, as the store sees them
Call(op, text, result) == [op |-> op, text |-> text, result |-> result]

PoolQuery == <<"SELECT BackgroundPoolTask, BackgroundPoolSize">>
MergesQuery == <<"SELECT FROM system.merges WHERE table = ", TABLE>>
SetAlterSync == <<"SET alter_sync = 1">>

\* optimize_query as optimize_table_sync builds it
BuildOptimizeQuery(table_name, final, cleanup) ==
    LET q0 == <<"OPTIMIZE TABLE ", table_name>>
        q1 == IF final THEN Append(q0, " FINAL") ELSE q0
    IN  IF cleanup THEN Append(q1, " CLEANUP") ELSE q1

Range(s) == {s[i] : i \in 1..Len(s)}

\* --- main, up to the call of optimize_table_sync
\* optimize_table_sync(ch, TABLE, final, cleanup): bind the arguments and start
\* at the function's first statement.
CallOptimizeTableSync(r, final, cleanup) ==
    /\ pc' = [pc EXCEPT ![r] = "sync_check_pool"]
    /\ optimize_query' =
           [optimize_query EXCEPT ![r] = BuildOptimizeQuery(TABLE, final, cleanup)]

\* main line 198: status = check_background_pool_status(ch); an error of the
\* query propagates out of main.
MainCheckPool(r) ==
    /\ pc[r] = "main_check_pool"
    /\ \/ \E a \in 0..MaxTasks, p \in 0..MaxPool :
            /\ status' = [status EXCEPT ![r] = <<PoolStatus(a, p)>>]
            /\ calls' = [calls EXCEPT ![r] = Append(@, Call("query", PoolQuery, "ok"))]
            /\ pc' = [pc EXCEPT ![r] = "main_check_merges"]
       \/ /\ calls' = [calls EXCEPT ![r] = Append(@, Call("query", PoolQuery, "error"))]
          /\ pc' = [pc EXCEPT ![r] = "main_raised"]
          /\ UNCHANGED status
    /\ UNCHANGED <<response, cleanup_response, sync_status, status_after,
                   optimize_query, ret>>
    /\ UNCHANGED <<ivars, qvars>>

\* main line 203: check_merge_operations(ch, TABLE)
MainCheckMerges(r) ==
    /\ pc[r] = "main_check_merges"
    /\ \E ok \in BOOLEAN :
          /\ calls' = [calls EXCEPT ![r] =
                 Append(@, Call("query", MergesQuery, IF ok THEN "ok" ELSE "error"))]
          /\ pc' = [pc EXCEPT ![r] = IF ok THEN "main_prompt" ELSE "main_raised"]
    /\ UNCHANGED <<response, cleanup_response, status, sync_status, status_after,
                   optimize_query, ret>>
    /\ UNCHANGED <<ivars, qvars>>

\* MainPrompt with the two call sites confused: cleanup=True after the FINAL prompt.
MainPromptCleanupBug(r) ==
    /\ pc[r] = "main_prompt"
    /\ \E a \in Answers :
          LET resp == LowerStr(Strip(a)) IN
          /\ response' = [response EXCEPT ![r] = resp]
          /\ IF Confirms(resp)
                THEN CallOptimizeTableSync(r, TRUE, TRUE)
                ELSE /\ pc' = [pc EXCEPT ![r] = "main_cleanup_prompt"]
                     /\ UNCHANGED optimize_query
    /\ UNCHANGED <<cleanup_response, status, sync_status, status_after, calls, ret>>
    /\ UNCHANGED <<ivars, qvars>>

\* main lines 212-216: the FINAL prompt
MainPrompt(r) ==
    /\ pc[r] = "main_prompt"
    /\ \E a \in Answers :
          LET resp == LowerStr(Strip(a)) IN
          /\ response' = [response EXCEPT ![r] = resp]
          /\ IF Confirms(resp)
                THEN CallOptimizeTableSync(r, TRUE, FALSE)
                ELSE /\ pc' = [pc EXCEPT ![r] = "main_cleanup_prompt"]
                     /\ UNCHANGED optimize_query
    /\ UNCHANGED <<cleanup_response, status, sync_status, status_after, calls, ret>>
    /\ UNCHANGED <<ivars, qvars>>

\* main lines 217-221: the FINAL CLEANUP prompt
MainCleanupPrompt(r) ==
    /\ pc[r] = "main_cleanup_prompt"
    /\ \E a \in Answers :
          LET resp == LowerStr(Strip(a)) IN
          /\ cleanup_response' = [cleanup_response EXCEPT ![r] = resp]
          /\ IF Confirms(resp)
                THEN CallOptimizeTableSync(r, TRUE, TRUE)
                ELSE /\ pc' = [pc EXCEPT ![r] = "main_cancelled"]
                     /\ UNCHANGED optimize_query
    /\ UNCHANGED <<response, status, sync_status, status_after, calls, ret>>
    /\ UNCHANGED <<ivars, qvars>>

\* --- optimize_table_sync
\* lines 143-149: the pre-run poll, outside the try block
SyncCheckPool(r) ==
    /\ pc[r] = "sync_check_pool"
    /\ \/ \E a \in 0..MaxTasks, p \in 0..MaxPool :
            /\ sync_status' = [sync_status EXCEPT ![r] = <<PoolStatus(a, p)>>]
            /\ calls' = [calls EXCEPT ![r] = Append(@, Call("query", PoolQuery, "ok"))]
            /\ pc' = [pc EXCEPT ![r] = "sync_set_alter_sync"]
       \/ /\ calls' = [calls EXCEPT ![r] = Append(@, Call("query", PoolQuery, "error"))]
          /\ pc' = [pc EXCEPT ![r] = "sync_raised"]
          /\ UNCHANGED sync_status
    /\ UNCHANGED <<response, cleanup_response, status, status_after,
                   optimize_query, ret>>
    /\ UNCHANGED <<ivars, qvars>>

\* line 153: ch.command("SET alter_sync = 1"), outside the try block
SyncSetAlterSync(r) ==
    /\ pc[r] = "sync_set_alter_sync"
    /\ \E ok \in BOOLEAN :
          /\ calls' = [calls EXCEPT ![r] =
                 Append(@, Call("command", SetAlterSync, IF ok THEN "ok" ELSE "error"))]
          /\ pc' = [pc EXCEPT ![r] = IF ok THEN "sync_optimize" ELSE "sync_raised"]
    /\ UNCHANGED <<response, cleanup_response, status, sync_status, status_after,
                   optimize_query, ret>>
    /\ UNCHANGED <<ivars, qvars>>

\* line 169: ch.command(optimize_query) is sent; the call blocks until the
\* store answers.
SyncIssueOptimize(r) ==
    /\ pc[r] = "sync_optimize"
    /\ calls' = [calls EXCEPT ![r] =
           Append(@, Call("command", optimize_query[r], "pending"))]
    /\ pc' = [pc EXCEPT ![r] = "compacting"]
    /\ UNCHANGED <<response, cleanup_response, status, sync_status, status_after,
                   optimize_query, ret>>
    /\ UNCHANGED <<ivars, qvars>>

Answered(log, result) == [log EXCEPT ![Len(log)].result = result]

\* SyncOptimizeReturns with an except clause that sends the command again.
SyncOptimizeReturnsRetryBug(r) ==
    /\ pc[r] = "compacting"
    /\ \/ /\ calls' = [calls EXCEPT ![r] = Answered(@, "ok")]
          /\ pc' = [pc EXCEPT ![r] = "sync_check_pool_after"]
          /\ UNCHANGED ret
       \/ /\ calls' = [calls EXCEPT ![r] = Answered(@, "error")]
          /\ IF Len(calls[r]) < 6
                THEN /\ pc' = [pc EXCEPT ![r] = "sync_optimize"]
                     /\ UNCHANGED ret
                ELSE /\ ret' = [ret EXCEPT ![r] = "False"]
                     /\ pc' = [pc EXCEPT ![r] = "sync_returned"]
    /\ UNCHANGED <<response, cleanup_response, status, sync_status, status_after,
                   optimize_query>>
    /\ UNCHANGED <<ivars, qvars>>

\* SyncOptimizeReturns with an except clause that polls the pool once more.
SyncOptimizeReturnsPollOnFailureBug(r) ==
    /\ pc[r] = "compacting"
    /\ \/ /\ calls' = [calls EXCEPT ![r] = Answered(@, "ok")]
          /\ pc' = [pc EXCEPT ![r] = "sync_check_pool_after"]
          /\ UNCHANGED ret
       \/ /\ calls' = [calls EXCEPT ![r] =
                 Append(Answered(@, "error"), Call("query", PoolQuery, "ok"))]
          /\ ret' = [ret EXCEPT ![r] = "False"]
          /\ pc' = [pc EXCEPT ![r] = "sync_returned"]
    /\ UNCHANGED <<response, cleanup_response, status, sync_status, status_after,
                   optimize_query>>
    /\ UNCHANGED <<ivars, qvars>>

\* lines 169-172 and 181-185: the store answers the OPTIMIZE command
SyncOptimizeReturns(r) ==
    /\ pc[r] = "compacting"
    /\ \/ /\ calls' = [calls EXCEPT ![r] = Answered(@, "ok")]
          /\ pc' = [pc EXCEPT ![r] = "sync_check_pool_after"]
          /\ UNCHANGED ret
       \/ /\ calls' = [calls EXCEPT ![r] = Answered(@, "error")]
          /\ ret' = [ret EXCEPT ![r] = "False"]
          /\ pc' = [pc EXCEPT ![r] = "sync_returned"]
    /\ UNCHANGED <<response, cleanup_response, status, sync_status, status_after,
                   optimize_query>>
    /\ UNCHANGED <<ivars, qvars>>

\* lines 176-179 and 181-185: the post-run poll, inside the try block, so its
\* error is caught by the same except clause as an error of OPTIMIZE.
SyncCheckPoolAfter(r) ==
    /\ pc[r] = "sync_check_pool_after"
    /\ \/ \E a \in 0..MaxTasks, p \in 0..MaxPool :
            /\ status_after' = [status_after EXCEPT ![r] = <<PoolStatus(a, p)>>]
            /\ calls' = [calls EXCEPT ![r] = Append(@, Call("query", PoolQuery, "ok"))]
            /\ ret' = [ret EXCEPT ![r] = "True"]
       \/ /\ calls' = [calls EXCEPT ![r] = Append(@, Call("query", PoolQuery, "error"))]
          /\ ret' = [ret EXCEPT ![r] = "False"]
          /\ UNCHANGED status_after
    /\ pc' = [pc EXCEPT ![r] = "sync_returned"]
    /\ UNCHANGED <<response, cleanup_response, status, sync_status, optimize_query>>
    /\ UNCHANGED <<ivars, qvars>>

MainStep(r) ==
    \/ MainCheckPool(r)
    \/ MainCheckMerges(r)
    \/ MainPrompt(r)
    \/ MainCleanupPrompt(r)
    \/ SyncCheckPool(r)
    \/ SyncSetAlterSync(r)
    \/ SyncIssueOptimize(r)
    \/ SyncOptimizeReturns(r)
    \/ SyncCheckPoolAfter(r)

\* --------------------------------------------- ingest_chunks.py, query_knn.py
MaxChunks == 2           \* chunks in one ingest batch: 0..MaxChunks
MaxClock == 1            \* wall-clock readings 0..MaxClock
MaxStore == 3            \* rows the table holds at most
MaxTopK == 2             \* LIMIT values 1..MaxTopK

\* Module-level configuration of the two scripts. The model lets a run be
\* configured with another tenant or source too, as a deployment edits them.
TENANT_ID == 88
SOURCE == "meetup_workshop"
DOC_ID == 1

Tenants == {TENANT_ID, 7}
Sources == {SOURCE, "demo"}

\* Chunk texts and questions, with the vector the embedding model gives each
\* (SentenceTransformer.encode is a fixed function of the text).
Texts == {"a", "b"}
Questions == {"qa", "qab"}

Embed(text) ==
    CASE text = "a" -> <<1, 0>>
      [] text = "b" -> <<0, 1>>
      [] text = "qa" -> <<2, 0>>
      [] text = "qab" -> <<1, 1>>

NoHits == <<0>>

Batches == UNION {[1..n -> Texts] : n \in 0..MaxChunks}

\* --- ingest_chunks.py
\* A run of the script starts: its configuration and texts are fixed.
IngestStart ==
    /\ ipc = "idle"
    /\ query = <<>>
    /\ \E b \in Batches, t \in Tenants, s \in Sources :
          /\ Len(store) + Len(b) <= MaxStore
          /\ texts' = b
          /\ cfg' = [tenant_id |-> t, source |-> s]
    /\ ipc' = "encode"
    /\ emb_failed' = {}
    /\ embeddings' = <<>>
    /\ rows' = <<>>
    /\ inserted' = 0
    /\ UNCHANGED <<clock, store>>
    /\ UNCHANGED <<cvars, qvars>>

\* line 45: embeddings = model.encode(texts). The batch call raises when the
\* model fails on any chunk, and nothing catches it.
IngestEncode ==
    /\ ipc = "encode"
    /\ \E bad \in SUBSET (1..Len(texts)) :
          /\ emb_failed' = bad
          /\ IF bad = {}
                THEN /\ embeddings' = [i \in 1..Len(texts) |-> Embed(texts[i])]
                     /\ ipc' = "prepare"
                ELSE /\ ipc' = "raised"
                     /\ UNCHANGED embeddings
    /\ UNCHANGED <<texts, cfg, rows, inserted, clock, store>>
    /\ UNCHANGED <<cvars, qvars>>

\* lines 68-77: one iteration of the loop over enumerate(zip(texts, embeddings));
\* datetime.now() is read in every iteration.
PrepareRow ==
    /\ ipc = "prepare"
    /\ Len(rows) < Len(texts)
    /\ LET i == Len(rows)
       IN  rows' = Append(rows,
               [ doc_id |-> DOC_ID,
                 chunk_id |-> i,
                 content |-> texts[i + 1],
                 embedding |-> embeddings[i + 1],
                 source |-> cfg.source,
                 tenant_id |-> cfg.tenant_id,
                 ts |-> clock ])
    /\ UNCHANGED <<ipc, texts, cfg, emb_failed, embeddings, inserted, clock, store>>
    /\ UNCHANGED <<cvars, qvars>>

\* lines 82-96: ch.insert(TABLE, rows, ...), one call for the batch; its error
\* propagates.
Insert ==
    /\ ipc = "prepare"
    /\ Len(rows) = Len(texts)
    /\ \/ /\ store' = store \o rows
          /\ inserted' = Len(rows)
          /\ ipc' = "done"
       \/ /\ ipc' = "raised"
          /\ UNCHANGED <<store, inserted>>
    /\ UNCHANGED <<texts, cfg, emb_failed, embeddings, rows, clock>>
    /\ UNCHANGED <<cvars, qvars>>

\* The script's process ends, after its last print or its traceback.
IngestExit ==
    /\ ipc \in {"done", "raised"}
    /\ ipc' = "idle"
    /\ texts' = <<>>
    /\ emb_failed' = {}
    /\ embeddings' = <<>>
    /\ rows' = <<>>
    /\ inserted' = 0
    /\ cfg' = [tenant_id |-> TENANT_ID, source |-> SOURCE]
    /\ UNCHANGED <<clock, store>>
    /\ UNCHANGED <<cvars, qvars>>

\* The wall clock advances, at any moment.
Tick ==
    /\ clock < MaxClock
    /\ clock' = clock + 1
    /\ UNCHANGED <<ipc, texts, cfg, emb_failed, embeddings, rows, inserted, store>>
    /\ UNCHANGED <<cvars, qvars>>

\* --- query_knn.py
\* str(x) of a vector component, and the store's reading of the literal
NumStr(x) ==
    CASE x = 0 -> "0.0"
      [] x = 1 -> "1.0"
      [] x = 2 -> "2.0"

ParseNum(str) ==
    CASE str = "0.0" -> 0
      [] str = "1.0" -> 1
      [] str = "2.0" -> 2

\* line 33: query_vector_sql = "[" + ",".join(map(str, ...)) + "]", kept as the
\* list of the joined items
QueryVectorSql(query_embedding) ==
    [i \in 1..Len(query_embedding) |-> NumStr(query_embedding[i])]

ParseVector(literal) == [i \in 1..Len(literal) |-> ParseNum(literal[i])]

\* lines 51-61: the statement sent to the store
Sql(question, tenant_id, source, top_k) ==
    [ vector |-> QueryVectorSql(Embed(question)),
      tenant_id |-> tenant_id,
      source |-> source,
      limit |-> top_k ]

\* cosineDistance(u, v) = 1 - u.v / (|u| |v|). The model keeps a score as the
\* reduced fraction sign(u.v) (u.v)^2 / (|u|^2 |v|^2), which decreases exactly
\* when the distance increases; equal distances have equal fractions.
RECURSIVE Dot(_, _)
Dot(u, v) == IF u = <<>> THEN 0 ELSE Head(u) * Head(v) + Dot(Tail(u), Tail(v))

RECURSIVE Gcd(_, _)
Gcd(x, y) == IF y = 0 THEN x ELSE Gcd(y, x % y)

Abs(x) == IF x < 0 THEN -x ELSE x

CosineDistance(u, v) ==
    LET d == Dot(u, v)
        num == IF d < 0 THEN -(d * d) ELSE d * d
        den == Dot(u, u) * Dot(v, v)
        g == Gcd(Abs(num), den)
    IN  <<num \div g, den \div g>>

\* score s is a smaller distance than score t
ScoreLess(s, t) == s[1] * t[2] > t[1] * s[2]

\* Where without the source condition.
WhereTenantOnly(row, sql) == row.tenant_id = sql.tenant_id

\* lines 56-58: WHERE tenant_id = {TENANT_ID} AND source = '{SOURCE}'
Where(row, sql) == row.tenant_id = sql.tenant_id /\ row.source = sql.source

Min(x, y) == IF x < y THEN x ELSE y

\* lines 51-63: what the store may answer to the statement: the rows that pass
\* WHERE, ORDER BY score ASC, LIMIT top_k. ORDER BY names score alone, so rows
\* of equal score come in any order, and any of them may be cut by LIMIT.
Answers_Knn(table, sql) ==
    LET qv == ParseVector(sql.vector)
        score(i) == CosineDistance(table[i].embedding, qv)
        cand == {i \in 1..Len(table) : Where(table[i], sql)}
        m == Min(sql.limit, Cardinality(cand))
    IN  { h \in [1..m -> cand] :
            /\ \A i, j \in 1..m : i < j => h[i] # h[j] /\ ~ScoreLess(score(h[j]), score(h[i]))
            /\ \A c \in cand \ Range(h) : \A i \in 1..m : ~ScoreLess(score(c), score(h[i])) }

\* lines 63-72: result.result_rows as printed: (content, score) per row
ResultRows(table, sql, h) ==
    [i \in 1..Len(h) |->
        <<table[h[i]].content, CosineDistance(table[h[i]].embedding, ParseVector(sql.vector))>>]

\* A run of the query script, configured with a question, a scope and TOP_K.
\* The scripts are run from one shell, one after the other.
KnnQuery ==
    /\ ipc = "idle"
    /\ query = <<>>
    /\ \E qn \in Questions, t \in Tenants, s \in Sources, k \in 1..MaxTopK :
          /\ query' = [question |-> qn, tenant_id |-> t, source |-> s, top_k |-> k]
          /\ \E h \in Answers_Knn(store, Sql(qn, t, s, k)) : hits' = h
    /\ hits_again' = NoHits
    /\ UNCHANGED <<cvars, ivars>>

\* The same script, run again with nothing changed.
KnnQueryAgain ==
    /\ ipc = "idle"
    /\ query # <<>>
    /\ hits_again = NoHits
    /\ \E h \in Answers_Knn(store,
                   Sql(query.question, query.tenant_id, query.source, query.top_k)) :
          hits_again' = h
    /\ UNCHANGED <<query, hits>>
    /\ UNCHANGED <<cvars, ivars>>

\* The query script's process ends, after its last print.
QueryExit ==
    /\ query # <<>>
    /\ query' = <<>>
    /\ hits' = NoHits
    /\ hits_again' = NoHits
    /\ UNCHANGED <<cvars, ivars>>

VInit ==
    /\ ipc = "idle"
    /\ texts = <<>>
    /\ cfg = [tenant_id |-> TENANT_ID, source |-> SOURCE]
    /\ emb_failed = {}
    /\ embeddings = <<>>
    /\ rows = <<>>
    /\ inserted = 0
    /\ clock = 0
    /\ store = <<>>
    /\ query = <<>>
    /\ hits = NoHits
    /\ hits_again = NoHits

CInit ==
    /\ pc = [r \in Runs |-> "main_check_pool"]
    /\ response = [r \in Runs |-> Unasked]
    /\ cleanup_response = [r \in Runs |-> Unasked]
    /\ status = [r \in Runs |-> <<>>]
    /\ sync_status = [r \in Runs |-> <<>>]
    /\ status_after = [r \in Runs |-> <<>>]
    /\ optimize_query = [r \in Runs |-> <<>>]
    /\ calls = [r \in Runs |-> <<>>]
    /\ ret = [r \in Runs |-> "unset"]

vars == <<cvars, ivars, qvars>>

Init == CInit /\ VInit

\* One invocation of the script.
Next == MainStep(1)

Spec == Init /\ [][Next]_vars

\* Two invocations of the script, interleaved at their store calls.
NextOverlap == \E r \in Runs : MainStep(r)

SpecOverlap == Init /\ [][NextOverlap]_vars

\* The ingest script alone, with the wall clock running.
NextIngest ==
    \/ IngestStart
    \/ IngestEncode
    \/ PrepareRow
    \/ Insert
    \/ IngestExit
    \/ Tick

SpecIngest == Init /\ [][NextIngest]_vars

\* The ingest and query scripts against one table. The clock is held still
\* here: nothing the query reads depends on ts.
NextVector ==
    \/ IngestStart
    \/ IngestEncode
    \/ PrepareRow
    \/ Insert
    \/ IngestExit
    \/ KnnQuery
    \/ QueryExit

SpecVector == Init /\ [][NextVector]_vars

\* The same, with the query script run a second time.
NextRequery ==
    \/ IngestStart
    \/ IngestEncode
    \/ PrepareRow
    \/ Insert
    \/ IngestExit
    \/ KnnQuery
    \/ KnnQueryAgain
    \/ QueryExit

SpecRequery == Init /\ [][NextRequery]_vars

\* ------------------------------------------------------------------ claims
IsOptimize(c) == c.op = "command" /\ c.text[1] = "OPTIMIZE TABLE "
IsPoolQuery(c) == c.op = "query" /\ c.text = PoolQuery

\* positions of the OPTIMIZE commands in a run's calls
OptimizeAt(r) == {i \in 1..Len(calls[r]) : IsOptimize(calls[r][i])}

\* pool-status queries a run made after position i
PollsAfter(r, i) == {j \in (i + 1)..Len(calls[r]) : IsPoolQuery(calls[r][j])}

\* C1: an OPTIMIZE command carrying CLEANUP is sent to the store only by a run
\* whose operator answered yes or y to the FINAL CLEANUP prompt, whatever the
\* pool status read before it.
C1_CleanupOnlyOnConfirmation ==
    \A r \in Runs : \A i \in OptimizeAt(r) :
        " CLEANUP" \in Range(calls[r][i].text) =>
            cleanup_response[r] \in { <<"y", "e", "s">>, <<"y">> }

\* C1 witness: a CLEANUP command was sent while the pre-run poll saw a full pool.
C1_Witness ==
    \E i \in OptimizeAt(1) :
        /\ " CLEANUP" \in Range(calls[1][i].text)
        /\ sync_status[1] # <<>>
        /\ sync_status[1][1].is_full

\* C3: a run sends the OPTIMIZE command to the store at most once, whether the
\* command succeeds or fails.
C3_OptimizeAtMostOnce ==
    \A r \in Runs : Cardinality(OptimizeAt(r)) <= 1

\* C3 witness: a run has ended after its OPTIMIZE command failed.
C3_Witness ==
    /\ pc[1] = "sync_returned"
    /\ \E i \in OptimizeAt(1) : calls[1][i].result = "error"

\* C4, as stated: after a failed OPTIMIZE the run reads the pool status exactly
\* once before it ends.
C4_PollsOnceAfterFailure ==
    \A r \in Runs : \A i \in OptimizeAt(r) :
        (pc[r] = "sync_returned" /\ calls[r][i].result = "error") =>
            Cardinality(PollsAfter(r, i)) = 1

\* C4, amended: a run that has ended read the pool status exactly once after an
\* OPTIMIZE command that succeeded, and not at all after one that failed.
C4_PollsAfterSuccessOnly ==
    \A r \in Runs : \A i \in OptimizeAt(r) :
        pc[r] = "sync_returned" =>
            Cardinality(PollsAfter(r, i)) = (IF calls[r][i].result = "ok" THEN 1 ELSE 0)

\* C4 witness: a run has ended with False after a failed OPTIMIZE, with no call
\* to the store after it.
C4_Witness ==
    /\ pc[1] = "sync_returned"
    /\ ret[1] = "False"
    /\ \E i \in OptimizeAt(1) : calls[1][i].result = "error" /\ i = Len(calls[1])

\* C5: no failure of a store call made by optimize_table_sync leaves it by an
\* exception.
C5_NoStoreFailureRaises ==
    \A r \in Runs : pc[r] # "sync_raised"

\* C10: optimize_table_sync returns True exactly when the OPTIMIZE command
\* completed without error.
C10_ReturnMatchesOptimize ==
    \A r \in Runs : \A i \in OptimizeAt(r) :
        pc[r] = "sync_returned" => (ret[r] = "True" <=> calls[r][i].result = "ok")

\* runs whose OPTIMIZE command has been sent and not yet answered
Compacting == {r \in Runs : \E i \in OptimizeAt(r) : calls[r][i].result = "pending"}

\* C2: no two OPTIMIZE commands for the table are in flight at once.
C2_NoOverlappingOptimize == Cardinality(Compacting) <= 1

InQueryScope(row) == row.tenant_id = query.tenant_id /\ row.source = query.source

\* C6: every row a KNN query returns has the query's tenant_id and source, and
\* when the scope holds no more than top_k rows all of them are returned.
C6_TenantIsolation ==
    hits # NoHits =>
        /\ \A i \in 1..Len(hits) : InQueryScope(store[hits[i]])
        /\ LET scope == {i \in 1..Len(store) : InQueryScope(store[i])}
           IN  Cardinality(scope) <= query.top_k => scope = Range(hits)

\* C6 witness: the table holds a row of the query's tenant under another source
\* and a row of another tenant, and the query returned a row.
C6_Witness ==
    /\ hits # NoHits
    /\ Len(hits) >= 1
    /\ \E i \in 1..Len(store) :
          store[i].tenant_id = query.tenant_id /\ store[i].source # query.source
    /\ \E i \in 1..Len(store) : store[i].tenant_id # query.tenant_id

\* C7: two runs of the same query against the unchanged table print the same
\* rows in the same order.
C7_SameQuerySameResult ==
    (hits # NoHits /\ hits_again # NoHits) =>
        LET sql == Sql(query.question, query.tenant_id, query.source, query.top_k)
        IN  ResultRows(store, sql, hits) = ResultRows(store, sql, hits_again)

\* C8: all rows prepared by one ingest run carry the same ts.
C8_UniformTimestamp ==
    \A i, j \in 1..Len(rows) : rows[i].ts = rows[j].ts

\* C9: when an ingest run has ended, the rows it wrote plus the chunks whose
\* embedding failed add up to the chunks it was given.
C9_Conservation ==
    ipc \in {"done", "raised"} => inserted + Cardinality(emb_failed) = Len(texts)

====
